---- MODULE Spec2Model ----
(***************************************************************************)
(* Model of the session multiplexer of claude-hub (server.js): the session *)
(* registry, the pty entries kept in activePtys, the WebSocket connection  *)
(* handlers and the callbacks of each pty (onData, onExit, idle timer).    *)
(* Every handler runs to completion on the single Node event loop, so each *)
(* handler is one atomic action.                                           *)
(***************************************************************************)
EXTENDS Integers, Sequences, FiniteSets, TLC

\* ----- bounds of the model ------------------------------------------------
SessionIds == {"s1", "s2"}        \* identifiers create can hand out
Conns == {"c1", "c2"}             \* WebSocket connections that may be opened
MaxProcs == 3                     \* pty processes spawned in one run
MaxOutputs == 3                   \* onData chunks delivered in one run
MaxEvents == 8                    \* handlers and callbacks that run in one run
ChunkLens == {40000, 60000, 100001} \* lengths of the chunks a pty may emit
Names == {<<"work">>}             \* names a request body may carry
MaxSessions == 3                  \* records in the registry when identifiers may repeat
MaxClientEvents == 8              \* browser events and animation frames in one run

\* ----- program constants --------------------------------------------------
HardCap == 100000
SoftCap == 80000
WS_OPEN == 1

NoSession == "null"               \* boundSessionId = null
NoPty == 0                        \* activePtys has no entry for the key
NoTimer == 0                      \* activityTimer = null
Undefined == <<"undefined">>      \* req.body.name is absent
Pids == 1..MaxProcs

VARIABLES
    sessions,       \* the persisted metadata list (sequence of records)
    usedIds,        \* identifiers create has handed out so far
    activePtys,     \* the Map id -> entry, as id -> pid of the entry (NoPty: absent)
    nextPid,        \* number of pty processes spawned so far, plus one
    entry,          \* pid -> the entry object captured by the pty's callbacks
    activityTimer,  \* pid -> the closure variable activityTimer (a timer handle)
    pendingTimers,  \* pid -> handles of the timeouts that are armed
    ptyState,       \* pid -> the process as the environment sees it
    outTotal,       \* number of onData chunks delivered so far
    emitted,        \* pid -> everything the pty has emitted (history)
    conn,           \* connection -> readyState and the closure variable boundSessionId
    lastAttach,     \* connection -> the sessionId of the last attach it sent (history)
    sent,           \* the ws.send calls of the last handler, in order
    ptyCalls,       \* the calls the last handler made on pty objects, in order
    events,         \* number of handlers and callbacks that have run
    server,         \* the Node process: running, crashed (uncaught exception) or stopped
    scenario,       \* how far the run has followed the example scenario (history)
    disk,           \* the document in sessions.json
    response,       \* the HTTP response of the last handler (none: not a route)
    clock,          \* number of times a handler has read the wall clock for a timestamp
    stream,         \* connection -> what it was sent since its last attach (history)
    cStatus,        \* browser: the sessions state of App, as id -> status (none: not listed)
    activeId,       \* browser: the activeId state of App
    prevStatus,     \* browser: prevStatusRef.current, as id -> status (none: undefined)
    toasts,         \* browser: the toasts the last run of the status effect raised
    permission,     \* browser: Notification.permission
    dom,            \* browser: the ids whose term-<id> container is in the document
    terminalsRef,   \* browser: id -> terminalsRef.current has the id
    sockets,        \* browser: id -> WebSockets doAttach opened and the client did not close
    frames,         \* browser: the callbacks waiting for the next animation frame, in order
    closing         \* browser: the ids whose closeSession awaits the DELETE response

serverVars == <<sessions, usedIds, activePtys, nextPid, entry, activityTimer,
                pendingTimers, ptyState, outTotal, emitted, conn, lastAttach, sent,
                ptyCalls, events, server, scenario, disk, response, clock, stream>>
terminalVars == <<dom, terminalsRef, sockets, frames, closing>>
clientVars == <<cStatus, activeId, prevStatus, toasts, permission, terminalVars>>

vars == <<sessions, usedIds, activePtys, nextPid, entry, activityTimer,
          pendingTimers, ptyState, outTotal, emitted, conn, lastAttach, sent, ptyCalls, events,
          server, scenario, disk, response, clock, stream, cStatus, activeId,
          prevStatus, toasts, permission, dom, terminalsRef, sockets, frames, closing>>

\* ----- strings --------------------------------------------------------------
\* A string is a sequence of segments <<k, from, to>>: the characters
\* from..to of chunk k, in order.  Chunk 0 is the spawn diagnostic text.
SegLen(g) == g[3] - g[2] + 1

RECURSIVE StrLen(_)
StrLen(s) == IF s = <<>> THEN 0 ELSE SegLen(Head(s)) + StrLen(Tail(s))

\* s + t
StrConcat(s, t) ==
    IF s = <<>> THEN t
    ELSE IF t = <<>> THEN s
    ELSE LET a == s[Len(s)]
             b == Head(t)
         IN  IF a[1] = b[1] /\ a[3] + 1 = b[2]
             THEN SubSeq(s, 1, Len(s) - 1) \o <<(<<a[1], a[2], b[3]>>)>> \o Tail(t)
             ELSE s \o t

\* s.slice(d) for 0 <= d
RECURSIVE DropFront(_, _)
DropFront(s, d) ==
    IF d = 0 \/ s = <<>> THEN s
    ELSE LET g == Head(s)
         IN  IF SegLen(g) <= d THEN DropFront(Tail(s), d - SegLen(g))
             ELSE <<(<<g[1], g[2] + d, g[3]>>)>> \o Tail(s)

\* s.slice(0, d)
RECURSIVE TakeFront(_, _)
TakeFront(s, d) ==
    IF d = 0 \/ s = <<>> THEN <<>>
    ELSE LET g == Head(s)
         IN  IF SegLen(g) <= d THEN <<g>> \o TakeFront(Tail(s), d - SegLen(g))
             ELSE <<(<<g[1], g[2], g[2] + d - 1>>)>>

\* s.slice(-n)
SliceLast(s, n) == IF StrLen(s) <= n THEN s ELSE DropFront(s, StrLen(s) - n)

Chunk(k, len) == <<(<<k, 1, len>>)>>

\* AppendScrollback trimming to the hard cap instead of the soft cap
AppendScrollbackKeepsHardCap(scrollback, data) ==
    LET s == StrConcat(scrollback, data)
    IN  IF StrLen(s) > HardCap THEN SliceLast(s, HardCap) ELSE s

\* entry.scrollback += data; if (length > 100000) scrollback = slice(-80000)
AppendScrollback(scrollback, data) ==
    LET s == StrConcat(scrollback, data)
    IN  IF StrLen(s) > HardCap THEN SliceLast(s, SoftCap) ELSE s

\* ----- JavaScript Set (insertion ordered) -----------------------------------
Range(q) == {q[i] : i \in 1..Len(q)}
SetAdd(q, x) == IF x \in Range(q) THEN q ELSE Append(q, x)
SetDelete(q, x) == SelectSeq(q, LAMBDA y : y # x)

\* ----- messages ---------------------------------------------------------------
\* sid of an output message is the session of the pty it comes from; the wire
\* format of output carries no sessionId.
Msg(c, type, sid, status, data) ==
    [to |-> c, type |-> type, sid |-> sid, status |-> status, data |-> data]
ErrorMsg(c, id) == Msg(c, "error", id, "", <<>>)
AttachedMsg(c, id, status) == Msg(c, "attached", id, status, <<>>)
OutputMsg(c, id, data) == Msg(c, "output", id, "", data)
StatusMsg(c, id, status) == Msg(c, "status", id, status, <<>>)
PtyCall(p, op) == [pid |-> p, op |-> op]
SpawnErrorText == <<(<<0, 1, 1>>)>>

\* Broadcast giving up at the first connection that is not open
RECURSIVE BroadcastStopsAtDead(_, _, _, _, _)
BroadcastStopsAtDead(clients, type, sid, status, data) ==
    IF clients = <<>> \/ conn[Head(clients)].readyState # WS_OPEN THEN <<>>
    ELSE <<Msg(Head(clients), type, sid, status, data)>>
         \o BroadcastStopsAtDead(Tail(clients), type, sid, status, data)

\* entry.wsClients.forEach(c => { if (c.readyState === 1) c.send(msg) })
RECURSIVE Broadcast(_, _, _, _, _)
Broadcast(clients, type, sid, status, data) ==
    IF clients = <<>> THEN <<>>
    ELSE LET c == Head(clients)
             rest == Broadcast(Tail(clients), type, sid, status, data)
         IN  IF conn[c].readyState = WS_OPEN
             THEN <<Msg(c, type, sid, status, data)>> \o rest
             ELSE rest

broadcastStatus(sessionId, e) == Broadcast(e.wsClients, "status", sessionId, e.status, <<>>)

\* ----- registry -------------------------------------------------------------
SessionIdsOf(ss) == {ss[i].id : i \in 1..Len(ss)}
HasSession(id) == id \in SessionIdsOf(sessions)
Spawned(p) == p \in Pids /\ p < nextPid

NoEntry == [sid |-> NoSession, status |-> "none", scrollback |-> <<>>, wsClients |-> <<>>]

Init ==
    /\ sessions = <<>>
    /\ usedIds = {}
    /\ activePtys = [id \in SessionIds |-> NoPty]
    /\ nextPid = 1
    /\ entry = [p \in Pids |-> NoEntry]
    /\ activityTimer = [p \in Pids |-> NoTimer]
    /\ pendingTimers = [p \in Pids |-> {}]
    /\ ptyState = [p \in Pids |-> [exited |-> FALSE, killed |-> FALSE]]
    /\ outTotal = 0
    /\ emitted = [p \in Pids |-> <<>>]
    /\ conn = [c \in Conns |-> [readyState |-> 0, boundSessionId |-> NoSession]]
    /\ lastAttach = [c \in Conns |-> NoSession]
    /\ sent = <<>>
    /\ ptyCalls = <<>>
    /\ events = 0
    /\ server = "running"
    /\ scenario = 0
    /\ disk = <<>>
    /\ response = "none"
    /\ clock = 0
    /\ stream = [c \in Conns |-> [pid |-> NoPty, data |-> <<>>]]
    /\ cStatus = [id \in SessionIds |-> "none"]
    /\ activeId = NoSession
    /\ prevStatus = [id \in SessionIds |-> "none"]
    /\ toasts = {}
    /\ permission = "default"
    /\ dom = {}
    /\ terminalsRef = [id \in SessionIds |-> FALSE]
    /\ sockets = [id \in SessionIds |-> 0]
    /\ frames = <<>>
    /\ closing = {}

\* ----- HTTP routes ----------------------------------------------------------
\* A session record is modelled by its id, its name and its lastActiveAt;
\* cwd, args and createdAt are written once by create and never read by the
\* server again.  A timestamp is the value of clock when it was taken.

\* `Session ${n}`
DefaultName(n) == <<"Session", n>>

\* saveSessions that never reaches the file
saveSessionsSkipsWrite(ss, document, writeOk) == document

\* saveSessions(sessions): the document in the file after the call;
\* fs.writeFileSync throws when the file cannot be written (writeOk = FALSE)
saveSessions(ss, document, writeOk) == IF writeOk THEN ss ELSE document

\* the response of a route that ends with saveSessions: a throw out of the
\* route is answered by the default error handler of express with status 500
Responded(writeOk) == IF writeOk THEN "ok" ELSE "error"

\* sessions.find(s => s.id === id), as the index of the record (0: undefined)
Find(ss, id) ==
    IF \E i \in 1..Len(ss) : ss[i].id = id
    THEN CHOOSE i \in 1..Len(ss) : ss[i].id = id /\ \A j \in 1..(i - 1) : ss[j].id # id
    ELSE 0

\* app.post('/api/sessions') once Date.now() and Math.random() have made the
\* identifier id
PostSession(id, name, writeOk) ==
    LET session == [id |-> id,
                    name |-> IF name # Undefined THEN name
                             ELSE DefaultName(Len(sessions) + 1),
                    lastActiveAt |-> clock + 1]
    IN  /\ id \in SessionIds
        /\ name \in Names \cup {Undefined}
        /\ sessions' = Append(sessions, session)
        /\ usedIds' = usedIds \cup {id}
        /\ clock' = clock + 1
        /\ disk' = saveSessions(sessions', disk, writeOk)
        /\ response' = Responded(writeOk)
        /\ sent' = <<>>
        /\ ptyCalls' = <<>>
        /\ UNCHANGED <<activePtys, nextPid, entry, activityTimer, pendingTimers,
                       ptyState, outTotal, emitted, conn, lastAttach, server>>

\* app.post('/api/sessions'): the identifier is Date.now() in base 36 followed
\* by four random characters; here the clock reading or the random draw
\* differs from that of every earlier create, so the identifier is one not
\* handed out before.
CreateSession(id, name, writeOk) ==
    /\ id \notin usedIds
    /\ PostSession(id, name, writeOk)

\* ListSessions reporting an exited entry as disconnected
ListSessionsHidesExited ==
    [i \in 1..Len(sessions) |->
        [id |-> sessions[i].id,
         name |-> sessions[i].name,
         lastActiveAt |-> sessions[i].lastActiveAt,
         status |-> IF activePtys[sessions[i].id] # NoPty
                       /\ entry[activePtys[sessions[i].id]].status # "exited"
                    THEN entry[activePtys[sessions[i].id]].status
                    ELSE "disconnected"]]

\* app.get('/api/sessions'): the response body
ListSessions ==
    [i \in 1..Len(sessions) |->
        [id |-> sessions[i].id,
         name |-> sessions[i].name,
         lastActiveAt |-> sessions[i].lastActiveAt,
         status |-> IF activePtys[sessions[i].id] # NoPty
                    THEN entry[activePtys[sessions[i].id]].status
                    ELSE "disconnected"]]

\* RenameSession creating the record when the identifier is unknown
RenameSessionUpserts(id, name, writeOk) ==
    LET i == Find(sessions, id)
        named == IF name # Undefined THEN name ELSE DefaultName(Len(sessions) + 1)
    IN  /\ id \in SessionIds
        /\ name \in Names \cup {Undefined}
        /\ sessions' = IF i = 0
                       THEN Append(sessions, [id |-> id, name |-> named,
                                              lastActiveAt |-> clock])
                       ELSE IF name # Undefined
                            THEN [sessions EXCEPT ![i].name = name] ELSE sessions
        /\ disk' = saveSessions(sessions', disk, writeOk)
        /\ response' = Responded(writeOk)
        /\ sent' = <<>>
        /\ ptyCalls' = <<>>
        /\ UNCHANGED <<usedIds, activePtys, nextPid, entry, activityTimer, pendingTimers,
                       ptyState, outTotal, emitted, conn, lastAttach, server, clock>>

\* app.patch('/api/sessions/:id')
RenameSession(id, name, writeOk) ==
    LET i == Find(sessions, id)
    IN  /\ id \in SessionIds
        /\ name \in Names \cup {Undefined}
        /\ IF i = 0
           THEN /\ response' = "notfound"
                /\ UNCHANGED <<sessions, disk>>
           ELSE /\ sessions' = IF name # Undefined
                               THEN [sessions EXCEPT ![i].name = name] ELSE sessions
                /\ disk' = saveSessions(sessions', disk, writeOk)
                /\ response' = Responded(writeOk)
        /\ sent' = <<>>
        /\ ptyCalls' = <<>>
        /\ UNCHANGED <<usedIds, activePtys, nextPid, entry, activityTimer, pendingTimers,
                       ptyState, outTotal, emitted, conn, lastAttach, server, clock>>

\* RemoveSession with the filter test inverted
RemoveSessionInverted(ss, id) == SelectSeq(ss, LAMBDA s : s.id = id)

\* sessions.filter(s => s.id !== id)
RemoveSession(ss, id) == SelectSeq(ss, LAMBDA s : s.id # id)

\* DeleteSession without the try/catch around kill: a throwing kill ends the
\* route before the entry and the record are removed
DeleteSessionKillAborts(id, killOk, writeOk) ==
    LET aborted == activePtys[id] # NoPty /\ ~killOk
    IN  /\ id \in SessionIds
        /\ IF activePtys[id] # NoPty
           THEN /\ ptyState' = [ptyState EXCEPT ![activePtys[id]].killed = @ \/ killOk]
                /\ ptyCalls' = <<PtyCall(activePtys[id], "kill")>>
                /\ activePtys' = IF killOk THEN [activePtys EXCEPT ![id] = NoPty]
                                 ELSE activePtys
           ELSE /\ ptyCalls' = <<>>
                /\ UNCHANGED <<ptyState, activePtys>>
        /\ sessions' = IF aborted THEN sessions ELSE RemoveSession(sessions, id)
        /\ disk' = IF aborted THEN disk ELSE saveSessions(sessions', disk, writeOk)
        /\ response' = IF aborted THEN "error" ELSE Responded(writeOk)
        /\ sent' = <<>>
        /\ UNCHANGED <<usedIds, nextPid, entry, activityTimer, pendingTimers,
                       outTotal, emitted, conn, lastAttach, server, clock>>

\* DeleteSession without activePtys.delete(id)
DeleteSessionKeepsEntry(id, killOk, writeOk) ==
    /\ id \in SessionIds
    /\ IF activePtys[id] # NoPty
       THEN /\ ptyState' = [ptyState EXCEPT ![activePtys[id]].killed = @ \/ killOk]
            /\ ptyCalls' = <<PtyCall(activePtys[id], "kill")>>
       ELSE /\ ptyCalls' = <<>>
            /\ UNCHANGED ptyState
    /\ activePtys' = activePtys
    /\ sessions' = RemoveSession(sessions, id)
    /\ disk' = saveSessions(sessions', disk, writeOk)
    /\ response' = Responded(writeOk)
    /\ sent' = <<>>
    /\ UNCHANGED <<usedIds, nextPid, entry, activityTimer, pendingTimers,
                   outTotal, emitted, conn, lastAttach, server, clock>>

\* app.delete('/api/sessions/:id'); killOk: entry.pty.kill() returns, it does
\* not throw
DeleteSession(id, killOk, writeOk) ==
    /\ id \in SessionIds
    /\ IF activePtys[id] # NoPty
       THEN /\ ptyState' = [ptyState EXCEPT ![activePtys[id]].killed = @ \/ killOk]
            /\ ptyCalls' = <<PtyCall(activePtys[id], "kill")>>
            /\ activePtys' = [activePtys EXCEPT ![id] = NoPty]
       ELSE /\ ptyCalls' = <<>>
            /\ UNCHANGED <<ptyState, activePtys>>
    /\ sessions' = RemoveSession(sessions, id)
    /\ disk' = saveSessions(sessions', disk, writeOk)
    /\ response' = Responded(writeOk)
    /\ sent' = <<>>
    /\ UNCHANGED <<usedIds, nextPid, entry, activityTimer, pendingTimers,
                   outTotal, emitted, conn, lastAttach, server, clock>>

\* setInterval(() => saveSessions(sessions), 30000): a throw out of the timer
\* callback is an uncaught exception
PeriodicSave(writeOk) ==
    /\ disk' = saveSessions(sessions, disk, writeOk)
    /\ server' = IF writeOk THEN server ELSE "crashed"
    /\ response' = "none"
    /\ sent' = <<>>
    /\ ptyCalls' = <<>>
    /\ UNCHANGED <<sessions, usedIds, activePtys, nextPid, entry, activityTimer,
                   pendingTimers, ptyState, outTotal, emitted, conn, lastAttach, clock>>

\* ----- WebSocket handlers ---------------------------------------------------
\* wss.on('connection')
Connect(c) ==
    /\ conn[c].readyState = 0
    /\ conn' = [conn EXCEPT ![c] = [readyState |-> WS_OPEN, boundSessionId |-> NoSession]]
    /\ sent' = <<>>
    /\ ptyCalls' = <<>>
    /\ UNCHANGED <<sessions, usedIds, activePtys, nextPid, entry, activityTimer,
                   pendingTimers, ptyState, outTotal, emitted, lastAttach>>

\* AttachExisting replaying the scrollback without testing it for emptiness
AttachExistingAlwaysReplays(c, id) ==
    LET p == activePtys[id]
        e == entry[p]
    IN  /\ entry' = [entry EXCEPT ![p].wsClients = SetAdd(e.wsClients, c)]
        /\ sent' = <<AttachedMsg(c, id, e.status), OutputMsg(c, id, e.scrollback)>>
        /\ ptyCalls' = <<>>
        /\ UNCHANGED <<activePtys, nextPid>>

\* the inbound frames that are not a well-formed typed message:
\* text JSON.parse rejects, the JSON text null, and any other JSON value whose
\* type property matches no case (numbers, strings, arrays, objects with a
\* missing or unknown type)
FrameKinds == {"unparseable", "null", "untyped"}

\* ws.on('message') for such a frame: JSON.parse throws and the handler
\* returns, or msg.type matches no case, or msg is null and reading msg.type
\* throws a TypeError out of the listener, which nothing catches
Malformed(c, kind) ==
    /\ conn[c].readyState = WS_OPEN
    /\ kind \in FrameKinds
    /\ server' = IF kind = "null" THEN "crashed" ELSE server
    /\ sent' = <<>>
    /\ ptyCalls' = <<>>
    /\ UNCHANGED <<sessions, usedIds, activePtys, nextPid, entry, activityTimer,
                   pendingTimers, ptyState, outTotal, emitted, conn, lastAttach>>

\* AttachExisting sending the replay ahead of the acknowledgement
AttachExistingReplaysFirst(c, id) ==
    LET p == activePtys[id]
        e == entry[p]
    IN  /\ entry' = [entry EXCEPT ![p].wsClients = SetAdd(e.wsClients, c)]
        /\ sent' = (IF e.scrollback # <<>> THEN <<OutputMsg(c, id, e.scrollback)>> ELSE <<>>)
                    \o <<AttachedMsg(c, id, e.status)>>
        /\ ptyCalls' = <<>>
        /\ UNCHANGED <<activePtys, nextPid>>

\* case 'attach', session found and activePtys.has(id)
AttachExisting(c, id) ==
    LET p == activePtys[id]
        e == entry[p]
    IN  /\ entry' = [entry EXCEPT ![p].wsClients = SetAdd(e.wsClients, c)]
        /\ sent' = <<AttachedMsg(c, id, e.status)>>
                    \o (IF e.scrollback # <<>> THEN <<OutputMsg(c, id, e.scrollback)>> ELSE <<>>)
        /\ ptyCalls' = <<>>
        /\ UNCHANGED <<activePtys, nextPid>>

\* case 'attach', session found and no entry: pty.spawn succeeded
AttachSpawn(c, id) ==
    LET p == nextPid
    IN  /\ nextPid <= MaxProcs
        /\ entry' = [entry EXCEPT ![p] = [sid |-> id, status |-> "active",
                                           scrollback |-> <<>>, wsClients |-> <<c>>]]
        /\ activePtys' = [activePtys EXCEPT ![id] = p]
        /\ nextPid' = nextPid + 1
        /\ sent' = <<AttachedMsg(c, id, "active")>>
        /\ ptyCalls' = <<PtyCall(p, "spawn")>>

\* AttachSpawnFailed reporting the diagnostic without the exited status
AttachSpawnFailedNoStatus(c, id) ==
    /\ sent' = <<OutputMsg(c, id, SpawnErrorText)>>
    /\ ptyCalls' = <<>>
    /\ UNCHANGED <<activePtys, nextPid, entry>>

\* case 'attach', session found and no entry: pty.spawn threw
AttachSpawnFailed(c, id) ==
    /\ sent' = <<OutputMsg(c, id, SpawnErrorText), StatusMsg(c, id, "exited")>>
    /\ ptyCalls' = <<>>
    /\ UNCHANGED <<activePtys, nextPid, entry>>

\* Attach without the activePtys.has(id) test: every attach spawns
AttachAlwaysSpawns(c, id, spawnOk) ==
    /\ conn[c].readyState = WS_OPEN
    /\ conn' = [conn EXCEPT ![c].boundSessionId = id]
    /\ lastAttach' = [lastAttach EXCEPT ![c] = id]
    /\ IF ~HasSession(id)
       THEN /\ sent' = <<ErrorMsg(c, id)>>
            /\ ptyCalls' = <<>>
            /\ UNCHANGED <<activePtys, nextPid, entry>>
       ELSE IF spawnOk THEN AttachSpawn(c, id) ELSE AttachSpawnFailed(c, id)
    /\ UNCHANGED <<sessions, usedIds, activityTimer, pendingTimers, ptyState,
                   outTotal, emitted>>

\* case 'attach': the whole handler
Attach(c, id, spawnOk) ==
    /\ conn[c].readyState = WS_OPEN
    /\ conn' = [conn EXCEPT ![c].boundSessionId = id]
    /\ lastAttach' = [lastAttach EXCEPT ![c] = id]
    /\ IF ~HasSession(id)
       THEN /\ sent' = <<ErrorMsg(c, id)>>
            /\ ptyCalls' = <<>>
            /\ UNCHANGED <<activePtys, nextPid, entry>>
       ELSE IF activePtys[id] # NoPty
            THEN AttachExisting(c, id)
            ELSE IF spawnOk THEN AttachSpawn(c, id) ELSE AttachSpawnFailed(c, id)
    /\ UNCHANGED <<sessions, usedIds, activityTimer, pendingTimers, ptyState,
                   outTotal, emitted>>

\* Input routed by the last attach, as if detach did not clear the binding
InputToLastAttached(c) ==
    LET b == lastAttach[c]
    IN  /\ conn[c].readyState = WS_OPEN
        /\ sent' = <<>>
        /\ ptyCalls' = IF b # NoSession /\ activePtys[b] # NoPty
                       THEN <<PtyCall(activePtys[b], "write")>> ELSE <<>>
        /\ UNCHANGED <<sessions, usedIds, activePtys, nextPid, entry, activityTimer,
                       pendingTimers, ptyState, outTotal, emitted, conn, lastAttach>>

\* case 'input'
Input(c) ==
    LET b == conn[c].boundSessionId
    IN  /\ conn[c].readyState = WS_OPEN
        /\ sent' = <<>>
        /\ ptyCalls' = IF b # NoSession /\ activePtys[b] # NoPty
                       THEN <<PtyCall(activePtys[b], "write")>> ELSE <<>>
        /\ UNCHANGED <<sessions, usedIds, activePtys, nextPid, entry, activityTimer,
                       pendingTimers, ptyState, outTotal, emitted, conn, lastAttach>>

\* pty.resize(cols, rows) throws when cols or rows is not a positive number
\* (valid = FALSE) and when the pty of the process is closed
ResizeThrows(p, valid) == ~valid \/ ptyState[p].exited

\* Resize without the try/catch: a throw leaves the message listener
ResizeUnguarded(c, valid) ==
    LET b == conn[c].boundSessionId
        called == b # NoSession /\ activePtys[b] # NoPty
    IN  /\ conn[c].readyState = WS_OPEN
        /\ sent' = <<>>
        /\ ptyCalls' = IF called THEN <<PtyCall(activePtys[b], "resize")>> ELSE <<>>
        /\ server' = IF called /\ ResizeThrows(activePtys[b], valid)
                     THEN "crashed" ELSE server
        /\ response' = "none"
        /\ UNCHANGED <<sessions, usedIds, activePtys, nextPid, entry, activityTimer,
                       pendingTimers, ptyState, outTotal, emitted, conn, lastAttach,
                       disk, clock>>

\* case 'resize': try { entry.pty.resize(msg.cols, msg.rows) } catch (e) {}
Resize(c, valid) ==
    LET b == conn[c].boundSessionId
        called == b # NoSession /\ activePtys[b] # NoPty
    IN  /\ conn[c].readyState = WS_OPEN
        /\ sent' = <<>>
        /\ ptyCalls' = IF called THEN <<PtyCall(activePtys[b], "resize")>> ELSE <<>>
        /\ server' = server
        /\ response' = "none"
        /\ UNCHANGED <<sessions, usedIds, activePtys, nextPid, entry, activityTimer,
                       pendingTimers, ptyState, outTotal, emitted, conn, lastAttach,
                       disk, clock>>

\* if (boundSessionId && activePtys.has(boundSessionId)) wsClients.delete(ws)
RemoveBound(c) ==
    LET b == conn[c].boundSessionId
    IN  IF b # NoSession /\ activePtys[b] # NoPty
        THEN [entry EXCEPT ![activePtys[b]].wsClients = SetDelete(@, c)]
        ELSE entry

\* Detach killing and dropping the entry when its last viewer leaves
DetachReapsEmpty(c) ==
    LET b == conn[c].boundSessionId
        last == b # NoSession /\ activePtys[b] # NoPty
                  /\ Range(entry[activePtys[b]].wsClients) \subseteq {c}
    IN  /\ conn[c].readyState = WS_OPEN
        /\ entry' = RemoveBound(c)
        /\ conn' = [conn EXCEPT ![c].boundSessionId = NoSession]
        /\ sent' = <<>>
        /\ ptyCalls' = IF last THEN <<PtyCall(activePtys[b], "kill")>> ELSE <<>>
        /\ activePtys' = IF last THEN [activePtys EXCEPT ![b] = NoPty] ELSE activePtys
        /\ UNCHANGED <<sessions, usedIds, nextPid, activityTimer,
                       pendingTimers, ptyState, outTotal, emitted, lastAttach>>

\* case 'detach'
Detach(c) ==
    /\ conn[c].readyState = WS_OPEN
    /\ entry' = RemoveBound(c)
    /\ conn' = [conn EXCEPT ![c].boundSessionId = NoSession]
    /\ sent' = <<>>
    /\ ptyCalls' = <<>>
    /\ UNCHANGED <<sessions, usedIds, activePtys, nextPid, activityTimer,
                   pendingTimers, ptyState, outTotal, emitted, lastAttach>>

\* The transport drops: readyState leaves OPEN before the close event is
\* dispatched to the handler.
TransportDrop(c) ==
    /\ conn[c].readyState = WS_OPEN
    /\ conn' = [conn EXCEPT ![c].readyState = 2]
    /\ sent' = <<>>
    /\ ptyCalls' = <<>>
    /\ UNCHANGED <<sessions, usedIds, activePtys, nextPid, entry, activityTimer,
                   pendingTimers, ptyState, outTotal, emitted, lastAttach>>

\* ws.on('close')
Close(c) ==
    /\ conn[c].readyState \in {WS_OPEN, 2}
    /\ entry' = RemoveBound(c)
    /\ conn' = [conn EXCEPT ![c].readyState = 3]
    /\ sent' = <<>>
    /\ ptyCalls' = <<>>
    /\ UNCHANGED <<sessions, usedIds, activePtys, nextPid, activityTimer,
                   pendingTimers, ptyState, outTotal, emitted, lastAttach>>

\* ----- pty callbacks --------------------------------------------------------
\* ResetIdleTimer without the clearTimeout
ResetIdleTimerNoClear(pending, handle, k) == pending \cup {k}

\* ResetIdleTimer arming only when no timer is armed and never cancelling
ResetIdleTimerKeepsArmed(pending, handle, k) == IF pending = {} THEN {k} ELSE pending

\* clearTimeout(activityTimer); activityTimer = setTimeout(..., IDLE_TIMEOUT)
\* pending: the armed timeouts, handle: activityTimer, k: the new handle
ResetIdleTimer(pending, handle, k) == (pending \ {handle}) \cup {k}

\* OnDataSends with the status broadcast ahead of the output broadcast
OnDataSendsStatusFirst(e, data) ==
    broadcastStatus(e.sid, e) \o Broadcast(e.wsClients, "output", e.sid, "", data)

\* the sends of onData: the output broadcast, then broadcastStatus(id, entry)
OnDataSends(e, data) ==
    Broadcast(e.wsClients, "output", e.sid, "", data) \o broadcastStatus(e.sid, e)

\* Touch leaving the timestamp as it is
TouchNever(ss, id, t) == ss

\* session.lastActiveAt = new Date().toISOString(), where session is the
\* record attach found under id; once delete has filtered the record out of
\* sessions the assignment no longer reaches the registry
Touch(ss, id, t) ==
    IF Find(ss, id) = 0 THEN ss ELSE [ss EXCEPT ![Find(ss, id)].lastActiveAt = t]

\* ptyProcess.onData: the chunk is number k of the run and arms timer k.
\* node-pty gives no ordering guarantee between the last data events and the
\* exit event, and kill() does not silence the process, so a chunk may arrive
\* in any state of a spawned pty.
OnData(p, len) ==
    LET k == outTotal + 1
        data == Chunk(k, len)
        e == [entry[p] EXCEPT !.status = "active",
                              !.scrollback = AppendScrollback(@, data)]
    IN  /\ Spawned(p)
        /\ outTotal < MaxOutputs
        /\ outTotal' = k
        /\ emitted' = [emitted EXCEPT ![p] = StrConcat(@, data)]
        /\ entry' = [entry EXCEPT ![p] = e]
        /\ pendingTimers' = [pendingTimers EXCEPT ![p] = ResetIdleTimer(@, activityTimer[p], k)]
        /\ activityTimer' = [activityTimer EXCEPT ![p] = k]
        /\ sent' = OnDataSends(e, data)
        /\ ptyCalls' = <<>>
        /\ clock' = clock + 1
        /\ sessions' = Touch(sessions, e.sid, clock')
        /\ response' = "none"
        /\ UNCHANGED <<usedIds, activePtys, nextPid, ptyState, conn, lastAttach,
                       server, disk>>

\* the status the idle timer callback sets and broadcasts
IdleStatus == "waiting"

\* the setTimeout callback armed by onData
IdleTimeout(p, t) ==
    LET e == [entry[p] EXCEPT !.status = IdleStatus]
    IN  /\ t \in pendingTimers[p]
        /\ pendingTimers' = [pendingTimers EXCEPT ![p] = @ \ {t}]
        /\ entry' = [entry EXCEPT ![p] = e]
        /\ sent' = broadcastStatus(e.sid, e)
        /\ ptyCalls' = <<>>
        /\ UNCHANGED <<sessions, usedIds, activePtys, nextPid, activityTimer,
                       ptyState, outTotal, emitted, conn, lastAttach>>

\* OnExit broadcasting before it sets the status
OnExitBroadcastsFirst(p) ==
    LET e == [entry[p] EXCEPT !.status = "exited"]
    IN  /\ Spawned(p)
        /\ ~ptyState[p].exited
        /\ ptyState' = [ptyState EXCEPT ![p].exited = TRUE]
        /\ entry' = [entry EXCEPT ![p] = e]
        /\ sent' = broadcastStatus(e.sid, entry[p])
        /\ ptyCalls' = <<>>
        /\ pendingTimers' = [pendingTimers EXCEPT ![p] = @ \ {activityTimer[p]}]
        /\ UNCHANGED <<sessions, usedIds, activePtys, nextPid, activityTimer,
                       outTotal, emitted, conn, lastAttach>>

\* ptyProcess.onExit
OnExit(p) ==
    LET e == [entry[p] EXCEPT !.status = "exited"]
    IN  /\ Spawned(p)
        /\ ~ptyState[p].exited
        /\ ptyState' = [ptyState EXCEPT ![p].exited = TRUE]
        /\ entry' = [entry EXCEPT ![p] = e]
        /\ sent' = broadcastStatus(e.sid, e)
        /\ ptyCalls' = <<>>
        /\ pendingTimers' = [pendingTimers EXCEPT ![p] = @ \ {activityTimer[p]}]
        /\ UNCHANGED <<sessions, usedIds, activePtys, nextPid, activityTimer,
                       outTotal, emitted, conn, lastAttach>>

\* activePtys.forEach((entry, id) => { try { entry.pty.kill() } catch (e) {} })
\* a Map iterates in insertion order, which is the order of the pids
RECURSIVE KillAll(_)
KillAll(p) ==
    IF p > MaxProcs THEN <<>>
    ELSE (IF \E id \in SessionIds : activePtys[id] = p
          THEN <<PtyCall(p, "kill")>> ELSE <<>>) \o KillAll(p + 1)

\* the entries of activePtys, as pids
LivePids == {p \in Pids : \E id \in SessionIds : activePtys[id] = p}

\* Shutdown with the kills ahead of the write
ShutdownKillsFirst(killed, writeOk) ==
    /\ killed \subseteq LivePids
    /\ disk' = saveSessions(sessions, disk, writeOk)
    /\ ptyCalls' = KillAll(1)
    /\ ptyState' = [p \in Pids |-> IF p \in killed
                                   THEN [ptyState[p] EXCEPT !.killed = TRUE]
                                   ELSE ptyState[p]]
    /\ server' = IF writeOk THEN "stopped" ELSE "crashed"
    /\ response' = "none"
    /\ sent' = <<>>
    /\ UNCHANGED <<sessions, usedIds, activePtys, nextPid, entry, activityTimer,
                   pendingTimers, outTotal, emitted, conn, lastAttach, clock>>

\* process.on('SIGINT'): saveSessions(sessions), then kill on every entry,
\* then process.exit(0).  killed: the ptys whose kill() returns, the others
\* throw into the catch.  A throwing saveSessions leaves the listener as an
\* uncaught exception before any kill is called.
Shutdown(killed, writeOk) ==
    /\ killed \subseteq LivePids
    /\ disk' = saveSessions(sessions, disk, writeOk)
    /\ ptyCalls' = IF writeOk THEN KillAll(1) ELSE <<>>
    /\ ptyState' = [p \in Pids |-> IF writeOk /\ p \in killed
                                   THEN [ptyState[p] EXCEPT !.killed = TRUE]
                                   ELSE ptyState[p]]
    /\ server' = IF writeOk THEN "stopped" ELSE "crashed"
    /\ response' = "none"
    /\ sent' = <<>>
    /\ UNCHANGED <<sessions, usedIds, activePtys, nextPid, entry, activityTimer,
                   pendingTimers, outTotal, emitted, conn, lastAttach, clock>>

\* one WebSocket handler or pty callback that touches neither the registry
\* file nor the clock runs to completion
Handler ==
    \/ \E c \in Conns : Connect(c)
    \/ \E c \in Conns, id \in SessionIds, spawnOk \in BOOLEAN : Attach(c, id, spawnOk)
    \/ \E c \in Conns : Input(c)
    \/ \E c \in Conns : Detach(c)
    \/ \E c \in Conns : TransportDrop(c)
    \/ \E c \in Conns : Close(c)
    \/ \E p \in Pids, t \in 1..MaxOutputs : IdleTimeout(p, t)
    \/ \E p \in Pids : OnExit(p)

\* one HTTP route runs to completion; in this specification the requests
\* carry no name, the sessions file is writable and kill does not throw
Route ==
    \/ \E id \in SessionIds : CreateSession(id, Undefined, TRUE)
    \/ \E id \in SessionIds : DeleteSession(id, TRUE, TRUE)

\* The example scenario of the design: create s1, connect c1, attach (spawn),
\* one chunk, idle timeout, detach, attach again.  scenario counts the steps
\* of it the run has taken from the start; -1 once the run has left it.
ScenarioStep ==
    CASE scenario = 0 /\ CreateSession("s1", Undefined, TRUE) -> 1
      [] scenario = 1 /\ Connect("c1") -> 2
      [] scenario = 2 /\ Attach("c1", "s1", TRUE) -> 3
      [] scenario = 3 /\ (\E len \in ChunkLens : OnData(1, len)) -> 4
      [] scenario = 4 /\ IdleTimeout(1, 1) -> 5
      [] scenario = 5 /\ Detach("c1") -> 6
      [] scenario = 6 /\ Attach("c1", "s1", TRUE) -> 7
      [] OTHER -> -1

ServerStep ==
    /\ events < MaxEvents
    /\ server = "running"
    /\ events' = events + 1
    /\ \/ Handler /\ response' = "none" /\ UNCHANGED <<server, disk, clock>>
       \/ /\ \E c \in Conns, kind \in FrameKinds : Malformed(c, kind)
          /\ response' = "none" /\ UNCHANGED <<disk, clock>>
       \/ Route
       \/ \E c \in Conns, valid \in BOOLEAN : Resize(c, valid)
       \/ \E p \in Pids, len \in ChunkLens : OnData(p, len)
       \/ Shutdown(LivePids, TRUE)
    /\ scenario' = ScenarioStep
    /\ UNCHANGED clientVars

Next == ServerStep /\ UNCHANGED stream

Spec == Init /\ [][Next]_vars

\* ----- the registry and its file ------------------------------------------
\* The registry with every request body, a sessions file that may refuse the
\* write and kills that may throw, next to one connection that spawns the
\* ptys and the callbacks of theirs that reach the registry.
RegistryConns == {"c1"}
RegistryChunkLens == {40000}

RegistryNext ==
    /\ events < MaxEvents
    /\ server = "running"
    /\ events' = events + 1
    /\ \/ /\ \/ \E c \in RegistryConns : Connect(c)
             \/ \E c \in RegistryConns, id \in SessionIds, spawnOk \in BOOLEAN :
                   Attach(c, id, spawnOk)
             \/ \E p \in Pids : OnExit(p)
          /\ response' = "none" /\ UNCHANGED <<server, disk, clock>>
       \/ \E id \in SessionIds, name \in Names \cup {Undefined}, writeOk \in BOOLEAN :
             CreateSession(id, name, writeOk)
       \/ \E id \in SessionIds, name \in Names \cup {Undefined}, writeOk \in BOOLEAN :
             RenameSession(id, name, writeOk)
       \/ \E id \in SessionIds, killOk \in BOOLEAN, writeOk \in BOOLEAN :
             DeleteSession(id, killOk, writeOk)
       \/ \E writeOk \in BOOLEAN : PeriodicSave(writeOk)
       \/ \E p \in Pids, len \in RegistryChunkLens : OnData(p, len)
       \/ \E killed \in SUBSET Pids, writeOk \in BOOLEAN : Shutdown(killed, writeOk)
    /\ UNCHANGED <<scenario, stream>>
    /\ UNCHANGED clientVars

RegistrySpec == Init /\ [][RegistryNext]_vars

\* ----- the identifiers of create ---------------------------------------------
\* create and delete when nothing is assumed about the clock readings and the
\* random draws: Date.now() repeats within a millisecond and after a step
\* back of the system clock, Math.random() may repeat a draw, and the route
\* does not look the identifier up before it pushes the record.
IdNext ==
    /\ events < MaxEvents
    /\ server = "running"
    /\ events' = events + 1
    /\ \/ /\ Len(sessions) < MaxSessions
          /\ \E id \in SessionIds : PostSession(id, Undefined, TRUE)
       \/ \E id \in SessionIds : DeleteSession(id, TRUE, TRUE)
    /\ UNCHANGED <<scenario, stream>>
    /\ UNCHANGED clientVars

IdSpec == Init /\ [][IdNext]_vars

\* ----- the browser client: status notifications ------------------------------
\* The sessions state of App is kept as the status of each listed session.
\* Every update of sessions or activeId renders, and the status effect runs
\* after the render.
ServerStatuses == {"active", IdleStatus, "exited"}

\* the toast the status effect raises for a session whose status changed
NotifyKind(prev, status) ==
    IF status = "idle" /\ prev = "active" THEN "attention"
    ELSE IF status = "exited" THEN "error"
    ELSE "none"

\* useEffect(..., [sessions, activeId]) over the new sessions cs and the new
\* activeId active
StatusEffect(cs, active) ==
    /\ toasts' = {[id |-> id, kind |-> NotifyKind(prevStatus[id], cs[id]),
                   desktop |-> /\ NotifyKind(prevStatus[id], cs[id]) = "attention"
                               /\ permission = "granted"] :
                     id \in {i \in SessionIds :
                                /\ cs[i] # "none"
                                /\ prevStatus[i] # "none"
                                /\ prevStatus[i] # cs[i]
                                /\ i # active
                                /\ NotifyKind(prevStatus[i], cs[i]) # "none"}}
    /\ prevStatus' = [id \in SessionIds |->
                         IF cs[id] # "none" THEN cs[id] ELSE prevStatus[id]]

\* Notification.requestPermission() is answered by the user
ClientPermission(answer) ==
    /\ permission = "default"
    /\ permission' = answer
    /\ UNCHANGED <<cStatus, activeId, prevStatus, toasts>>

\* the initial load: setSessions(data) with the body of GET /api/sessions
ClientLoad(list) ==
    /\ permission' = permission
    /\ \A id \in SessionIds : cStatus[id] = "none" /\ prevStatus[id] = "none"
    /\ cStatus' = list
    /\ activeId' = activeId
    /\ StatusEffect(list, activeId)

\* createSession: the new session is listed as active and becomes the tab
ClientCreated(id) ==
    /\ permission' = permission
    /\ cStatus[id] = "none"
    /\ cStatus' = [cStatus EXCEPT ![id] = "active"]
    /\ activeId' = id
    /\ StatusEffect(cStatus', id)

\* ws.onmessage, msg.type === 'status'
ClientStatus(id, status) ==
    /\ permission' = permission
    /\ cStatus[id] # "none"
    /\ cStatus' = [cStatus EXCEPT ![id] = status]
    /\ activeId' = activeId
    /\ StatusEffect(cStatus', activeId)

\* ws.onclose
ClientSocketClosed(id) ==
    /\ permission' = permission
    /\ cStatus[id] # "none"
    /\ cStatus' = [cStatus EXCEPT ![id] = "disconnected"]
    /\ activeId' = activeId
    /\ StatusEffect(cStatus', activeId)

\* setActiveId(id) from a tab or a sidebar item
ClientSelect(id) ==
    /\ permission' = permission
    /\ cStatus[id] # "none"
    /\ id # activeId
    /\ cStatus' = cStatus
    /\ activeId' = id
    /\ StatusEffect(cStatus, id)

ClientNext ==
    /\ \/ \E list \in [SessionIds -> ServerStatuses \cup {"disconnected", "none"}] :
             ClientLoad(list)
       \/ \E id \in SessionIds : ClientCreated(id)
       \/ \E id \in SessionIds, status \in ServerStatuses : ClientStatus(id, status)
       \/ \E id \in SessionIds : ClientSocketClosed(id)
       \/ \E id \in SessionIds : ClientSelect(id)
       \/ \E answer \in {"granted", "denied"} : ClientPermission(answer)
    /\ UNCHANGED serverVars
    /\ UNCHANGED terminalVars

ClientSpec == Init /\ [][ClientNext]_vars

\* ----- vocabulary of the properties ------------------------------------------
LiveEntry(id) == activePtys[id] # NoPty
EntryOf(id) == entry[activePtys[id]]
ProcsOf(id) == {p \in Pids : Spawned(p) /\ entry[p].sid = id}
Deleted(id) == id \in usedIds /\ ~HasSession(id)

\* the handler of this step is an attach of connection c naming session id:
\* only attach sends error or attached, or the spawn diagnostic
AttachStep(c, id) ==
    /\ sent' # <<>>
    /\ sent'[1].to = c
    /\ sent'[1].sid = id
    /\ \/ sent'[1].type \in {"error", "attached"}
       \/ sent'[1].type = "output" /\ sent'[1].data = SpawnErrorText

\* the callback of this step is onData of pty p
DataStep(p) == outTotal' = outTotal + 1 /\ emitted'[p] # emitted[p]
\* the chunk that onData of pty p received in this step
DataOf(p) == DropFront(emitted'[p], StrLen(emitted[p]))

OutputsIn(q) == SelectSeq(q, LAMBDA m : m.type = "output")

\* C1: once the status of a session's entry is exited it stays exited, whatever
\* handler or callback runs next, for as long as the session keeps its entry.
C1_ExitIsTerminal ==
    [][\A id \in SessionIds :
          (LiveEntry(id) /\ EntryOf(id).status = "exited" /\ activePtys'[id] # NoPty)
              => entry'[activePtys'[id]].status = "exited"]_vars

C3_FanOut ==
    [][/\ \A p \in Pids : DataStep(p) =>
              LET outs == OutputsIn(sent')
                  open == {c \in Range(entry[p].wsClients) : conn[c].readyState = WS_OPEN}
              IN  /\ Len(outs) = Cardinality(open)
                  /\ \A c \in open :
                         Cardinality({i \in 1..Len(outs) : outs[i].to = c}) = 1
                  /\ \A i \in 1..Len(outs) : outs[i].data = DataOf(p)
       /\ \A i \in 1..Len(sent') :
              sent'[i].type \in {"output", "status"} =>
                  ~(/\ conn'[sent'[i].to].boundSessionId = NoSession
                    /\ lastAttach'[sent'[i].to] = sent'[i].sid)]_vars

\* C4: a connection is in the connection set of an entry only if that entry is
\* the one of the session the connection is bound to (so of at most one).
C4_BoundToOneSession ==
    \A c \in Conns, id \in SessionIds :
        (LiveEntry(id) /\ c \in Range(EntryOf(id).wsClients))
            => conn[c].boundSessionId = id

\* C5: a connection whose close handler has run is in no entry's connection set.
C5_CloseRemoves ==
    \A c \in Conns, id \in SessionIds :
        (conn[c].readyState = 3 /\ LiveEntry(id)) => c \notin Range(EntryOf(id).wsClients)

\* C6: an attach naming an identifier that is not in the registry sends one
\* error message to the requester only, spawns nothing, changes no connection
\* set and leaves the connection unbound.
C6_UnknownAttach ==
    [][\A c \in Conns, id \in SessionIds :
          (AttachStep(c, id) /\ ~HasSession(id)) =>
              /\ sent' = <<ErrorMsg(c, id)>>
              /\ nextPid' = nextPid /\ ptyCalls' = <<>>
              /\ entry' = entry /\ activePtys' = activePtys
              /\ conn'[c].boundSessionId = NoSession]_vars

\* C7: the scrollback never holds more than 100,000 characters; an onData whose
\* chunk takes it above 100,000 leaves exactly the last 80,000 characters of
\* the previous contents followed by the chunk, and any other onData leaves
\* the previous contents followed by the chunk.
C7_ScrollbackBounded ==
    [][\A p \in Pids :
          /\ StrLen(entry'[p].scrollback) <= 100000
          /\ DataStep(p) =>
                LET whole == StrConcat(entry[p].scrollback, DataOf(p))
                    kept == entry'[p].scrollback
                    excess == StrLen(whole) - 80000
                IN  IF StrLen(whole) > 100000
                    THEN /\ StrLen(kept) = 80000
                         /\ StrConcat(TakeFront(whole, excess), kept) = whole
                    ELSE kept = whole
          /\ ~DataStep(p) => entry'[p].scrollback = entry[p].scrollback]_vars

\* a scrollback that was trimmed to the soft cap, losing part of a chunk
C7_Witness ==
    \E p \in Pids :
        /\ StrLen(emitted[p]) > HardCap
        /\ StrLen(entry[p].scrollback) = SoftCap
        /\ Head(entry[p].scrollback)[2] > 1

\* C8: an attach to a session that has an entry sends the connection the
\* attached message and then, when the scrollback is not empty, one output
\* message whose data is the scrollback (all the pty has emitted, when that
\* never exceeded the cap), and nothing else; when the scrollback is empty the
\* attach sends no output message.  An attach that spawns sends no output.
C8_ReplayOnAttach ==
    [][\A c \in Conns, id \in SessionIds :
          (AttachStep(c, id) /\ HasSession(id)) =>
              IF LiveEntry(id)
              THEN LET p == activePtys[id]
                       sb == entry[p].scrollback
                   IN  /\ sent'[1] = AttachedMsg(c, id, entry[p].status)
                       /\ IF sb = <<>>
                          THEN Len(sent') = 1
                          ELSE /\ Len(sent') = 2
                               /\ sent'[2] = OutputMsg(c, id, sb)
                               /\ StrLen(emitted[p]) <= HardCap => sb = emitted[p]
              ELSE \A i \in 1..Len(sent') :
                       sent'[i].type = "output" => sent'[i].data = SpawnErrorText]_vars

\* an attach was answered with attached and a replay of two emitted chunks
C8_Witness ==
    /\ Len(sent) = 2
    /\ sent[1].type = "attached"
    /\ sent[2].type = "output" /\ Len(sent[2].data) = 2
    /\ \E p \in Pids : Spawned(p) /\ sent[2].data = emitted[p]

\* C9: an output chunk makes the status active and leaves exactly one idle
\* timer armed, the one it started (the timer of an earlier chunk is
\* cancelled); when an armed idle timer expires it is the timer of the latest
\* chunk and the status becomes waiting.
C9_IdleTransition ==
    [][\A p \in Pids :
          /\ DataStep(p) =>
                /\ entry'[p].status = "active"
                /\ pendingTimers'[p] = {outTotal'}
          /\ (pendingTimers'[p] # pendingTimers[p] /\ outTotal' = outTotal
                 /\ ptyState' = ptyState) =>
                /\ pendingTimers[p] = {activityTimer[p]}
                /\ pendingTimers'[p] = {}
                /\ entry'[p].status = "waiting"]_vars

\* a second chunk replaced the timer of the first, and that timer expired
C9_Witness ==
    \E p \in Pids :
        /\ Len(emitted[p]) >= 2
        /\ activityTimer[p] >= 2
        /\ pendingTimers[p] = {}
        /\ entry[p].status = "waiting"

ViewerLeaves == \E c \in Conns : Detach(c) \/ TransportDrop(c) \/ Close(c)

\* C11: a detach, a transport drop or a close calls nothing on any pty, removes
\* no entry and changes no entry's status, scrollback or timer, also when it
\* empties the connection set; a chunk that arrives while the set is empty is
\* appended to the scrollback; kill is called only by delete and by shutdown.
C11_ViewersNeverCancel ==
    [][/\ ViewerLeaves =>
              /\ ptyCalls' = <<>>
              /\ activePtys' = activePtys /\ ptyState' = ptyState
              /\ pendingTimers' = pendingTimers
              /\ \A p \in Pids : /\ entry'[p].status = entry[p].status
                                  /\ entry'[p].scrollback = entry[p].scrollback
       /\ \A p \in Pids :
              (DataStep(p) /\ entry[p].wsClients = <<>>) =>
                  LET whole == StrConcat(entry[p].scrollback, DataOf(p))
                      kept == entry'[p].scrollback
                  IN  /\ kept # <<>>
                      /\ kept = DropFront(whole, StrLen(whole) - StrLen(kept))
                      /\ StrLen(whole) <= 100000 => kept = whole
       /\ (\E i \in 1..Len(ptyCalls') : ptyCalls'[i].op = "kill") =>
              \/ \E id \in SessionIds : DeleteSession(id, TRUE, TRUE)
              \/ Shutdown(LivePids, TRUE)]_vars

\* both viewers of a live pty have left, one by detach and one by close, and
\* the entry is still there with its status, its scrollback and its timer
C11_Witness ==
    \E id \in SessionIds :
        /\ LiveEntry(id)
        /\ EntryOf(id).wsClients = <<>> /\ EntryOf(id).scrollback # <<>>
        /\ EntryOf(id).status = "active"
        /\ pendingTimers[activePtys[id]] # {}
        /\ ~ptyState[activePtys[id]].killed
        /\ \E c, d \in Conns :
              /\ c # d
              /\ lastAttach[c] = id /\ conn[c].boundSessionId = NoSession
              /\ conn[c].readyState = WS_OPEN
              /\ lastAttach[d] = id /\ conn[d].readyState = 3

\* C12: onExit sets the status exited, leaves no idle timer armed and keeps
\* the entry; while the session keeps the entry of an exited pty, an attach to
\* it is answered with attached carrying exited and then the scrollback (when
\* not empty), and spawns nothing.
C12_ExitedRetained ==
    [][/\ \A p \in Pids : OnExit(p) =>
              /\ entry'[p].status = "exited"
              /\ pendingTimers'[p] = {}
              /\ activePtys' = activePtys
       /\ \A c \in Conns, id \in SessionIds :
              (AttachStep(c, id) /\ LiveEntry(id) /\ ptyState[activePtys[id]].exited) =>
                  /\ sent'[1] = AttachedMsg(c, id, "exited")
                  /\ IF EntryOf(id).scrollback = <<>> THEN Len(sent') = 1
                     ELSE sent' = <<sent'[1], OutputMsg(c, id, EntryOf(id).scrollback)>>
                  /\ nextPid' = nextPid /\ ptyCalls' = <<>>
                  /\ activePtys' = activePtys]_vars

\* C13: handling a frame that is not a well-formed typed message sends
\* nothing, calls nothing, changes no binding, entry or session, leaves the
\* connection open and raises nothing out of the handler.
C13_MalformedDiscarded ==
    [][\A c \in Conns, kind \in FrameKinds :
          Malformed(c, kind) =>
              /\ sent' = <<>> /\ ptyCalls' = <<>>
              /\ conn' = conn /\ entry' = entry /\ activePtys' = activePtys
              /\ sessions' = sessions
              /\ server' = "running"]_vars

\* the step is a callback of pty p that broadcasts: onData, the idle timeout
\* or onExit
BroadcastStep(p) ==
    \/ \E len \in ChunkLens : OnData(p, len)
    \/ \E t \in 1..MaxOutputs : IdleTimeout(p, t)
    \/ OnExit(p)

\* C14: when pty.spawn fails in an attach, the requester and nobody else is
\* sent one output diagnostic and then one status exited; no entry is created
\* and no entry, status or connection set of any session changes.
C14_SpawnFailureContained ==
    [][\A c \in Conns, id \in SessionIds :
          (AttachStep(c, id) /\ sent'[1].type = "output") =>
              /\ sent' = <<OutputMsg(c, id, SpawnErrorText), StatusMsg(c, id, "exited")>>
              /\ ~LiveEntry(id) /\ activePtys' = activePtys
              /\ nextPid' = nextPid /\ ptyCalls' = <<>>
              /\ entry' = entry /\ ptyState' = ptyState
              /\ server' = "running"]_vars

\* a spawn failure was reported while another session had a live entry with
\* a viewer
C14_Witness ==
    /\ Len(sent) = 2
    /\ sent[1].type = "output" /\ sent[1].data = SpawnErrorText
    /\ sent[2].type = "status" /\ sent[2].status = "exited"
    /\ ~LiveEntry(sent[1].sid)
    /\ \E id \in SessionIds : LiveEntry(id) /\ EntryOf(id).wsClients # <<>>

\* C15: a broadcast sends its message to every open connection of the set and
\* nothing to a connection that is not open, and leaves the set as it was; a
\* connection that is not open leaves a set only in its own close handler.
C15_BroadcastToleratesDead ==
    [][\A p \in Pids :
          /\ BroadcastStep(p) =>
                /\ entry'[p].wsClients = entry[p].wsClients
                /\ \A c \in Range(entry[p].wsClients) :
                      IF conn[c].readyState = WS_OPEN
                      THEN /\ StatusMsg(c, entry[p].sid, entry'[p].status) \in Range(sent')
                           /\ DataStep(p) =>
                                 OutputMsg(c, entry[p].sid, DataOf(p)) \in Range(sent')
                      ELSE \A i \in 1..Len(sent') : sent'[i].to # c
          /\ \A c \in Conns :
                (/\ c \in Range(entry[p].wsClients)
                 /\ c \notin Range(entry'[p].wsClients)
                 /\ conn[c].readyState # WS_OPEN) => Close(c)]_vars

\* a broadcast reached an open connection that sits behind a dead one in the set
C15_Witness ==
    \E p \in Pids :
        /\ Len(entry[p].wsClients) = 2
        /\ conn[entry[p].wsClients[1]].readyState # WS_OPEN
        /\ conn[entry[p].wsClients[2]].readyState = WS_OPEN
        /\ sent # <<>>
        /\ sent[1].to = entry[p].wsClients[2]
        /\ sent[1].type \in {"output", "status"}
        /\ sent[1].sid = entry[p].sid

\* C16: whenever the status of a spawned pty's entry changes, every open
\* connection of its set is sent a status message carrying the new status.
C16_TransitionsBroadcast ==
    [][\A p \in Pids :
          (Spawned(p) /\ entry'[p].status # entry[p].status) =>
              /\ entry'[p].status \in {"active", "waiting", "exited"}
              /\ \A c \in Range(entry'[p].wsClients) :
                    conn[c].readyState = WS_OPEN =>
                        StatusMsg(c, entry[p].sid, entry'[p].status) \in Range(sent')]_vars

\* a pty with two open viewers exited and both were sent status exited
C16_Witness ==
    \E p \in Pids :
        /\ entry[p].status = "exited"
        /\ Len(entry[p].wsClients) = 2
        /\ sent = <<StatusMsg(entry[p].wsClients[1], entry[p].sid, "exited"),
                    StatusMsg(entry[p].wsClients[2], entry[p].sid, "exited")>>

\* what the example scenario's viewer is sent by the handler of each step,
\* with the messages the chunk's onData sends given by afterChunk and the
\* replayed text by replay
ScenarioSends(afterChunk, replay) ==
    /\ scenario \in {1, 2, 6} => sent = <<>>
    /\ scenario = 3 => sent = <<AttachedMsg("c1", "s1", "active")>>
    /\ scenario = 4 => sent = afterChunk
    /\ scenario = 5 => sent = <<StatusMsg("c1", "s1", "waiting")>>
    /\ scenario = 7 => sent = <<AttachedMsg("c1", "s1", "waiting"),
                                OutputMsg("c1", "s1", replay)>>

\* C17 as claimed: in the example scenario the viewer is sent attached active;
\* for the chunk, output with the chunk and nothing else; then status waiting;
\* after detach and attach, attached waiting and output replaying the chunk.
C17_ScenarioAsClaimed ==
    ScenarioSends(<<OutputMsg("c1", "s1", emitted[1])>>, emitted[1])

\* C17 as amended: the same, except that the chunk's onData sends the viewer
\* output with the chunk followed by status active, and that the replay of a
\* chunk longer than 100,000 characters is its last 80,000 characters.
C17_Scenario ==
    ScenarioSends(<<OutputMsg("c1", "s1", emitted[1]), StatusMsg("c1", "s1", "active")>>,
                  IF StrLen(emitted[1]) > 100000
                  THEN DropFront(emitted[1], StrLen(emitted[1]) - 80000)
                  ELSE emitted[1])

\* the scenario has run to its end
C17_Witness == scenario = 7 /\ Len(sent) = 2

\* C18: a successful attach sends the connection attached with the entry's
\* current status first, then the replay if there is one, and nothing else; a
\* connection enters a connection set only in such an attach, and a pty's
\* callbacks send only to connections already in its set, so live output and
\* status follow the acknowledgement and the replay.
C18_AttachOrdering ==
    [][/\ \A c \in Conns, id \in SessionIds :
              (AttachStep(c, id) /\ sent'[1].type = "attached") =>
                  LET e == entry'[activePtys'[id]]
                  IN  /\ activePtys'[id] # NoPty
                      /\ c \in Range(e.wsClients)
                      /\ sent'[1] = AttachedMsg(c, id, e.status)
                      /\ IF e.scrollback = <<>> THEN Len(sent') = 1
                         ELSE /\ Len(sent') = 2
                              /\ sent'[2] = OutputMsg(c, id, e.scrollback)
       /\ \A c \in Conns, p \in Pids :
              (c \notin Range(entry[p].wsClients) /\ c \in Range(entry'[p].wsClients)) =>
                  /\ AttachStep(c, entry'[p].sid)
                  /\ sent'[1].type = "attached"
       /\ \A p \in Pids :
              BroadcastStep(p) =>
                  \A i \in 1..Len(sent') :
                      /\ sent'[i].to \in Range(entry[p].wsClients)
                      /\ sent'[i].type \in {"output", "status"}]_vars

\* a re-attach was answered with attached carrying waiting and then the replay
C18_Witness ==
    /\ Len(sent) = 2
    /\ sent[1].type = "attached" /\ sent[1].status = "waiting"
    /\ sent[2].type = "output" /\ sent[2].to = sent[1].to

\* C19: an input message calls write on the pty of the entry of the
\* connection's boundSessionId and on no other; when the connection is unbound
\* (never attached, or detached) or that session has no entry it calls nothing.
\* It sends nothing and changes nothing.  Nothing else calls write.
C19_InputRouting ==
    [][/\ \A c \in Conns :
              Input(c) =>
                  LET b == conn[c].boundSessionId
                  IN  /\ sent' = <<>>
                      /\ entry' = entry /\ conn' = conn /\ activePtys' = activePtys
                      /\ sessions' = sessions /\ ptyState' = ptyState
                      /\ ptyCalls' = IF b # NoSession /\ LiveEntry(b)
                                     THEN <<PtyCall(activePtys[b], "write")>>
                                     ELSE <<>>
       /\ (\E i \in 1..Len(ptyCalls') : ptyCalls'[i].op = "write") =>
              \E c \in Conns : Input(c)]_vars

\* an input was written to the pty of the sender's session while the other
\* session had a pty too
C19_Witness ==
    /\ Len(ptyCalls) = 1 /\ ptyCalls[1].op = "write"
    /\ nextPid = 3
    /\ \A id \in SessionIds : LiveEntry(id)

\* C20: the listing has one element per session record, in order; its status
\* is disconnected exactly when the session has no entry, and otherwise the
\* entry's status, which is active, waiting or exited.
C20_ListReportsStatus ==
    /\ Len(ListSessions) = Len(sessions)
    /\ \A i \in 1..Len(sessions) :
          LET r == ListSessions[i]
          IN  /\ r.id = sessions[i].id
              /\ r.status = "disconnected" <=> ~LiveEntry(r.id)
              /\ LiveEntry(r.id) =>
                    /\ r.status = EntryOf(r.id).status
                    /\ r.status \in {"active", "waiting", "exited"}

\* two sessions listed, one disconnected and one exited
C20_Witness ==
    /\ Len(sessions) = 2
    /\ \E i, j \in 1..2 : /\ ListSessions[i].status = "disconnected"
                           /\ ListSessions[j].status = "exited"

\* ----- the registry claims ----------------------------------------------------
\* the record of session id in ss (id is in ss)
RecordOf(ss, id) == ss[Find(ss, id)]

\* C21: a rename of an identifier that is not in the registry answers not
\* found and leaves the session sequence and the file as they are; a rename of
\* a known identifier keeps every record as it is except the name of the
\* record with that identifier, which becomes the name of the request (and
\* stays when the request carries none), and touches no entry.
C21_Rename ==
    [][\A id \in SessionIds, name \in Names \cup {Undefined}, writeOk \in BOOLEAN :
          RenameSession(id, name, writeOk) =>
              /\ ~HasSession(id) =>
                    /\ response' = "notfound"
                    /\ sessions' = sessions
                    /\ disk' = disk
              /\ HasSession(id) =>
                    /\ response' # "notfound"
                    /\ Len(sessions') = Len(sessions)
                    /\ \A i \in 1..Len(sessions) :
                          /\ sessions'[i].id = sessions[i].id
                          /\ sessions'[i].lastActiveAt = sessions[i].lastActiveAt
                          /\ sessions'[i].name =
                                IF sessions[i].id = id /\ name # Undefined
                                THEN name ELSE sessions[i].name
              /\ activePtys' = activePtys /\ entry' = entry /\ ptyCalls' = <<>>]_vars

\* one session was renamed while the file refused the write (the file still
\* holds the default name), and a rename of an unknown identifier was then
\* answered not found
C21_Witness ==
    /\ response = "notfound"
    /\ Len(sessions) = 1 /\ Len(disk) = 1
    /\ sessions[1].name \in Names
    /\ disk[1].name = DefaultName(1)

\* C22: create never hands out an identifier it has handed out before, so no
\* two records of the registry have the same identifier, whatever creates and
\* deletes came before.
C22_UniqueIds ==
    [][Len(sessions') = Len(sessions) + 1 =>
          /\ sessions'[Len(sessions')].id \notin usedIds
          /\ \A i, j \in 1..Len(sessions') :
                sessions'[i].id = sessions'[j].id => i = j]_vars

\* C23: when a create, a rename or a delete has answered with its result the
\* file holds the session sequence as it is in memory, record for record; a
\* periodic save that goes through writes the session sequence as it is and
\* changes nothing in memory.
C23_PersistedOnMutation ==
    [][/\ response' = "ok" => disk' = sessions'
       /\ \A writeOk \in BOOLEAN :
             (PeriodicSave(writeOk) /\ server' = "running") =>
                 /\ disk' = sessions
                 /\ sessions' = sessions]_vars

\* a rename wrote to the file the timestamp an output chunk had left in
\* memory only
C23_Witness ==
    /\ response = "ok"
    /\ Cardinality(usedIds) = 1 /\ Len(sessions) = 1
    /\ sessions[1].lastActiveAt = 2
    /\ disk = sessions

\* C24: a shutdown calls kill on the pty of every entry of activePtys, whether
\* or not another kill throws and whether or not the write of the file fails,
\* and when the write goes through the file holds the session sequence.
C24_ShutdownKillsAndPersists ==
    [][\A killed \in SUBSET Pids, writeOk \in BOOLEAN :
          Shutdown(killed, writeOk) =>
              /\ \A p \in LivePids : PtyCall(p, "kill") \in Range(ptyCalls')
              /\ writeOk => disk' = sessions]_vars

\* C28: a delete of an identifier that has no entry calls no kill and changes
\* no entry; a delete of an identifier that has no record leaves the session
\* sequence as it is; every delete keeps the records and the entries of the
\* other identifiers, removes the record and the entry of its own, also when
\* its kill throws, and answers ok unless the write of the file failed.
C28_DeleteIdempotent ==
    [][\A id \in SessionIds, killOk \in BOOLEAN, writeOk \in BOOLEAN :
          DeleteSession(id, killOk, writeOk) =>
              /\ ~LiveEntry(id) =>
                    /\ ptyCalls' = <<>>
                    /\ activePtys' = activePtys /\ ptyState' = ptyState
              /\ ~HasSession(id) => sessions' = sessions
              /\ sessions' = SelectSeq(sessions, LAMBDA r : r.id # id)
              /\ entry' = entry
              /\ \A other \in SessionIds \ {id} : activePtys'[other] = activePtys[other]
              /\ activePtys'[id] = NoPty
              /\ id \notin SessionIdsOf(sessions')
              /\ writeOk => response' = "ok"]_vars

\* a session was deleted while the kill of its pty threw, and a second delete
\* of the same identifier was answered ok without a kill
C28_Witness ==
    \E id \in SessionIds, p \in Pids :
        /\ Spawned(p) /\ entry[p].sid = id /\ ~ptyState[p].killed
        /\ Deleted(id) /\ activePtys[id] = NoPty
        /\ sessions = <<>> /\ Cardinality(usedIds) = 1
        /\ ptyCalls = <<>>
        /\ response = "ok"

\* ----- timestamps, notifications, resize, independence, the idle timer -------
\* the status of the entry of pty p changes in this step
StatusChanges(p) == Spawned(p) /\ entry[p].status # "none" /\ entry'[p].status # entry[p].status

\* C25 as claimed: every change of the status of a session's entry, to active,
\* to waiting or to exited, advances the lastActiveAt of the session's record.
C25_EveryTransitionTouches ==
    [][\A p \in Pids :
          (StatusChanges(p) /\ HasSession(entry[p].sid)) =>
              RecordOf(sessions', entry[p].sid).lastActiveAt
                  > RecordOf(sessions, entry[p].sid).lastActiveAt]_vars

\* C25: every output chunk of a session's pty advances the lastActiveAt of the
\* session's record to the time of the chunk, for as long as the record is in
\* the registry; the idle timer callback and the exit callback change no
\* record.
C25_OutputTouches ==
    [][\A p \in Pids :
          /\ (DataStep(p) /\ HasSession(entry[p].sid)) =>
                /\ RecordOf(sessions', entry[p].sid).lastActiveAt = clock'
                /\ clock' > RecordOf(sessions, entry[p].sid).lastActiveAt
          /\ ((\E t \in 1..MaxOutputs : IdleTimeout(p, t)) \/ OnExit(p)) =>
                sessions' = sessions]_vars

\* a session went active by a chunk and waiting by the idle timer, and its
\* record has the timestamp of the chunk
C25_Witness ==
    \E id \in SessionIds :
        /\ HasSession(id) /\ LiveEntry(id)
        /\ Cardinality(usedIds) = 1 /\ outTotal = 1
        /\ EntryOf(id).status = IdleStatus
        /\ sent # <<>> /\ sent[1].type = "status" /\ sent[1].status = IdleStatus
        /\ RecordOf(sessions, id).lastActiveAt = 2

\* C26: when the status effect of the browser sees a session that is not the
\* active tab go from active to the status the server's idle timer broadcasts,
\* it raises the attention toast for that session.
C26_AttentionNotification ==
    [][\A id \in SessionIds :
          (/\ prevStatus[id] = "active"
           /\ cStatus'[id] = IdleStatus
           /\ activeId' # id
           /\ prevStatus'[id] = IdleStatus) =>
              \E t \in toasts' : t.id = id /\ t.kind = "attention"]_vars

\* C27: a resize message calls resize on the pty of the connection's bound
\* session when that session has an entry and on nothing else; whether the
\* connection is unbound or bound, and whether the call returns or throws,
\* nothing is sent, the server keeps running and no binding, entry, timer or
\* record changes.
C27_ResizeBestEffort ==
    [][\A c \in Conns, valid \in BOOLEAN :
          Resize(c, valid) =>
              LET b == conn[c].boundSessionId
              IN  /\ ptyCalls' = IF b \in SessionIds /\ LiveEntry(b)
                                 THEN <<PtyCall(activePtys[b], "resize")>> ELSE <<>>
                  /\ sent' = <<>>
                  /\ server' = "running"
                  /\ conn' = conn /\ entry' = entry /\ activePtys' = activePtys
                  /\ pendingTimers' = pendingTimers /\ sessions' = sessions]_vars

\* a resize reached a pty that had exited; the call threw and the server runs
C27_Witness ==
    \E p \in Pids :
        /\ ptyCalls = <<PtyCall(p, "resize")>>
        /\ ResizeThrows(p, TRUE)
        /\ server = "running"

\* C29: an output, idle timer or exit callback of a pty leaves the entry of
\* every pty of another session as it is, and sends nothing to a connection
\* that is bound to another session.
C29_CrossSessionIndependence ==
    [][\A p \in Pids :
          BroadcastStep(p) =>
              /\ \A q \in Pids : entry[q].sid # entry[p].sid => entry'[q] = entry[q]
              /\ \A i \in 1..Len(sent') :
                    conn[sent'[i].to].boundSessionId \in {NoSession, entry[p].sid}]_vars

\* the chunk of the latest output event of pty p
LastChunk(p) == emitted[p][Len(emitted[p])][1]

\* C30: an entry never has two idle timers armed; an output chunk cancels the
\* timer that was armed and arms its own; the timer that expires is the one
\* the latest chunk of the pty armed.
C30_SingleIdleTimer ==
    [][\A p \in Pids :
          /\ Cardinality(pendingTimers'[p]) <= 1
          /\ DataStep(p) =>
                /\ pendingTimers'[p] \cap pendingTimers[p] = {}
                /\ pendingTimers'[p] = {LastChunk(p)'}
          /\ \A t \in 1..MaxOutputs : IdleTimeout(p, t) => t = LastChunk(p)]_vars

\* a second chunk arrived while the timer of the first was armed; one timer,
\* that of the second chunk, is armed
C30_Witness ==
    \E p \in Pids :
        /\ Len(emitted[p]) >= 2
        /\ entry[p].status = "active"
        /\ pendingTimers[p] = {LastChunk(p)}
        /\ sent # <<>>

\* ----- deleted sessions, silent processes, streams, ownership ------------------
\* C31: once a session is deleted no handler or callback sends an output or a
\* status message of that session to any connection, whatever the killed pty
\* still emits and whichever of its callbacks still run.
C31_DeletedGoesSilent ==
    [][\A i \in 1..Len(sent') :
          sent'[i].type \in {"output", "status"} => ~Deleted(sent'[i].sid)]_vars

\* C32: whenever the status of an entry is active and its pty has not exited,
\* an idle timer of the entry is armed, from the spawn on.
C32_TimerArmedWhileActive ==
    \A p \in Pids :
        (Spawned(p) /\ entry[p].status = "active" /\ ~ptyState[p].exited)
            => pendingTimers[p] # {}

\* C34: every identifier that has an entry in activePtys has a record in the
\* registry.
C34_EntriesBelongToSessions ==
    \A id \in SessionIds : LiveEntry(id) => HasSession(id)

\* one session was deleted while its pty was alive, and another session still
\* has its entry and its record
C34_Witness ==
    \E id, other \in SessionIds :
        /\ Deleted(id) /\ ProcsOf(id) # {}
        /\ other # id /\ LiveEntry(other) /\ HasSession(other)

\* ----- what a viewer receives ---------------------------------------------------
\* the data of the output messages of q that go to connection c, joined in
\* the order they were sent
RECURSIVE DataTo(_, _)
DataTo(q, c) ==
    IF q = <<>> THEN <<>>
    ELSE IF Head(q).type = "output" /\ Head(q).to = c
         THEN StrConcat(Head(q).data, DataTo(Tail(q), c))
         ELSE DataTo(Tail(q), c)

NoStream == [pid |-> NoPty, data |-> <<>>]

\* stream of c after this step: an attach that was acknowledged starts it
\* anew with the replay, under the pty of the session attached to; any other
\* attach and a connection that is no longer open end it; every other
\* handler adds the output it sends to c
StreamAfter(c) ==
    IF conn'[c].readyState # WS_OPEN THEN NoStream
    ELSE IF \E id \in SessionIds : AttachStep(c, id)
         THEN IF sent'[1].type = "attached"
              THEN [pid |-> activePtys'[sent'[1].sid], data |-> DataTo(sent', c)]
              ELSE NoStream
         ELSE IF stream[c].pid = NoPty THEN NoStream
              ELSE [stream[c] EXCEPT !.data = StrConcat(@, DataTo(sent', c))]

\* the multiplexer with the record of what every connection received
StreamNext == ServerStep /\ stream' = [c \in Conns |-> StreamAfter(c)]

StreamSpec == Init /\ [][StreamNext]_vars

\* s is the end of t
IsSuffix(s, t) ==
    /\ StrLen(s) <= StrLen(t)
    /\ s = DropFront(t, StrLen(t) - StrLen(s))

\* C33: for an open connection that is in the connection set of the entry it
\* attached to, the replay followed by the data of the output messages it has
\* received since is the end of everything that entry's pty has emitted:
\* nothing missing, nothing twice, nothing out of order, nothing foreign.
C33_GapFreeStream ==
    \A c \in Conns :
        LET p == stream[c].pid
        IN  (p # NoPty /\ conn[c].readyState = WS_OPEN /\ c \in Range(entry[p].wsClients))
                => IsSuffix(stream[c].data, emitted[p])

\* ----- the browser's terminals ---------------------------------------------------
\* App's terminal attachment: the tabs and the term-<id> containers are
\* rendered from the sessions state in one commit, which React schedules on
\* its own; requestAnimationFrame callbacks run in the order they were
\* queued, all those queued before a frame in that frame.
Callback(cb, id) == [cb |-> cb, id |-> id]

Listed == {id \in SessionIds : cStatus[id] # "none"}

\* doAttach(sessionId, container) on the pass st through the frame's callbacks
doAttach(st, id) == [st EXCEPT !.ref[id] = TRUE, !.socks[id] = @ + 1]

\* attachTerminal(sessionId)
attachTerminal(st, id) ==
    IF st.ref[id] THEN st
    ELSE IF id \in dom THEN doAttach(st, id)
    ELSE [st EXCEPT !.next = Append(@, Callback("lookup", id))]

\* one requestAnimationFrame callback: the outer and the inner callback of
\* createSession and reconnectSession, and the retry of attachTerminal
RunCallback(st, f) ==
    CASE f.cb = "outer" -> [st EXCEPT !.next = Append(@, Callback("inner", f.id))]
      [] f.cb = "inner" -> attachTerminal(st, f.id)
      [] f.cb = "lookup" -> IF f.id \in dom THEN doAttach(st, f.id) ELSE st

RECURSIVE RunFrame(_, _)
RunFrame(q, st) ==
    IF q = <<>> THEN st ELSE RunFrame(Tail(q), RunCallback(st, Head(q)))

\* the browser runs the callbacks queued for this frame
AnimationFrame ==
    LET st == RunFrame(frames, [ref |-> terminalsRef, socks |-> sockets, next |-> <<>>])
    IN  /\ frames # <<>>
        /\ terminalsRef' = st.ref
        /\ sockets' = st.socks
        /\ frames' = st.next
        /\ UNCHANGED <<cStatus, activeId, dom, closing, usedIds>>

\* React commits the render of the sessions state
ClientRender ==
    /\ dom # Listed
    /\ dom' = Listed
    /\ UNCHANGED <<cStatus, activeId, terminalsRef, sockets, frames, closing, usedIds>>

\* the load effect: setSessions(data); nothing is shown before it
TerminalLoad(list) ==
    /\ usedIds = {}
    /\ cStatus' = list
    /\ usedIds' = {id \in SessionIds : list[id] # "none"}
    /\ UNCHANGED <<activeId, dom, terminalsRef, sockets, frames, closing>>

\* createSession after the POST answered with the session id
ClientCreateSession(id) ==
    /\ cStatus' = [cStatus EXCEPT ![id] = "active"]
    /\ activeId' = id
    /\ frames' = Append(frames, Callback("outer", id))
    /\ usedIds' = usedIds \cup {id}
    /\ UNCHANGED <<dom, terminalsRef, sockets, closing>>

\* reconnectSession(id), the onSelect of a tab or a sidebar item on screen
ClientReconnectSession(id) ==
    /\ id \in dom
    /\ activeId' = id
    /\ frames' = IF terminalsRef[id] THEN frames
                 ELSE Append(frames, Callback("outer", id))
    /\ UNCHANGED <<cStatus, dom, terminalsRef, sockets, closing, usedIds>>

\* closeSession(id) up to its await: from the close button of a tab on
\* screen or the keyboard shortcut on the active session
ClientCloseSession(id) ==
    /\ id \in dom \/ id = activeId
    /\ id \notin closing
    /\ sockets' = [sockets EXCEPT ![id] = IF terminalsRef[id] THEN @ - 1 ELSE @]
    /\ terminalsRef' = [terminalsRef EXCEPT ![id] = FALSE]
    /\ closing' = closing \cup {id}
    /\ UNCHANGED <<cStatus, activeId, dom, frames, usedIds>>

\* closeSession(id) after the DELETE was answered: the session leaves the
\* list and the last remaining one becomes the tab (of two identifiers at
\* most one remains)
ClientCloseSessionDone(id) ==
    /\ id \in closing
    /\ closing' = closing \ {id}
    /\ cStatus' = [cStatus EXCEPT ![id] = "none"]
    /\ activeId' = IF activeId # id THEN activeId
                   ELSE IF Listed \ {id} = {} THEN NoSession
                   ELSE CHOOSE o \in Listed \ {id} : TRUE
    /\ UNCHANGED <<dom, terminalsRef, sockets, frames, usedIds>>

TerminalNext ==
    /\ events < MaxClientEvents
    /\ events' = events + 1
    /\ \/ \E list \in [SessionIds -> {"active", "none"}] : TerminalLoad(list)
       \/ \E id \in SessionIds : ClientCreateSession(id)
       \/ \E id \in SessionIds : ClientReconnectSession(id)
       \/ \E id \in SessionIds : ClientCloseSession(id)
       \/ \E id \in SessionIds : ClientCloseSessionDone(id)
       \/ ClientRender
       \/ AnimationFrame
    /\ UNCHANGED <<sessions, activePtys, nextPid, entry, activityTimer, pendingTimers,
                   ptyState, outTotal, emitted, conn, lastAttach, sent, ptyCalls,
                   server, scenario, disk, response, clock, stream>>
    /\ UNCHANGED <<prevStatus, toasts, permission>>

TerminalSpec == Init /\ [][TerminalNext]_vars

\* C35: whatever tabs are selected, sessions created and closed and frames
\* run, the client holds at most one open WebSocket per session identifier.
C35_OneSocketPerSession ==
    \A id \in SessionIds : sockets[id] <= 1

====
